---- MODULE Spec2Model ----
(***************************************************************************)
(* devfd: an anonymous file drop (src/src/main.rs).                        *)
(*                                                                         *)
(* The model covers the identifier codec (FileDescriptor::from_param,      *)
(* Uuid::parse_str, to_hyphenated), the address codec (bytes_to_ip and the *)
(* encoding in add_file), the metadata index (get_file, add_file), the     *)
(* blob store under the content root, and the upload and download handlers *)
(* with the routes that bind them.  Requests run concurrently; every await *)
(* of a handler is a step boundary.                                        *)
(*                                                                         *)
(* A text is a sequence of one-character strings.  A Uuid is its sequence  *)
(* of 32 hex nibbles (16 bytes).  An Option is a sequence of length 0 or 1.*)
(***************************************************************************)
EXTENDS Integers, Sequences, FiniteSets

\* ------------------------------------------------------------------ bounds

\* Concurrent upload requests (each runs upload_file once).
MaxUploads == 2

\* Concurrent download connections (each serves one request after another).
MaxDownloads == 1

Uploads == 1..MaxUploads
Downloads == 1..MaxDownloads

\* ------------------------------------------------------------- characters

HexLower == <<"0","1","2","3","4","5","6","7","8","9","a","b","c","d","e","f">>
HexUpper == <<"0","1","2","3","4","5","6","7","8","9","A","B","C","D","E","F">>

Range(s) == {s[i] : i \in DOMAIN s}

\* char::is_ascii_alphanumeric
IsAsciiAlphanumeric(c) ==
    c \in {"0","1","2","3","4","5","6","7","8","9",
           "a","b","c","d","e","f","g","h","i","j","k","l","m",
           "n","o","p","q","r","s","t","u","v","w","x","y","z",
           "A","B","C","D","E","F","G","H","I","J","K","L","M",
           "N","O","P","Q","R","S","T","U","V","W","X","Y","Z"}

IsHexDigit(c) == c \in Range(HexLower) \cup Range(HexUpper)

\* The value of a hex digit, either letter case.
HexVal(c) ==
    IF c \in Range(HexLower)
    THEN (CHOOSE i \in 1..16 : HexLower[i] = c) - 1
    ELSE (CHOOSE i \in 1..16 : HexUpper[i] = c) - 1

\* ------------------------------------------------------ identifier codec

\* uuid's ACC_GROUP_LENS: hex digits read when each hyphenated group ends.
AccGroupLens == <<8, 12, 16, 20, 32>>

UrnPrefix == <<"u","r","n",":","u","u","i","d",":">>

ParseErr == [ok |-> FALSE, uuid |-> <<>>]

\* The digit loop of Uuid::parse_str: `digit` hex digits read so far, `group`
\* hyphens passed, `buf` the nibbles read.  A hyphen is accepted only on a byte
\* boundary and only where the current group ends.
RECURSIVE UuidParseFrom(_, _, _, _, _)
UuidParseFrom(input, i, digit, group, buf) ==
    IF i > Len(input)
    THEN IF digit = AccGroupLens[5] THEN [ok |-> TRUE, uuid |-> buf] ELSE ParseErr
    ELSE IF digit >= 32 /\ group # 4
    THEN ParseErr
    ELSE IF IsHexDigit(input[i])
    THEN UuidParseFrom(input, i + 1, digit + 1, group, Append(buf, HexVal(input[i])))
    ELSE IF input[i] = "-" /\ digit % 2 = 0 /\ group < 5
    THEN IF AccGroupLens[group + 1] = digit
         THEN UuidParseFrom(input, i + 1, digit, group + 1, buf)
         ELSE ParseErr
    ELSE ParseErr

\* Uuid::parse_str: the length must be that of the hyphenated (36) or the simple
\* (32) form, or of the urn form (45) with its prefix, which is stripped.
UuidParseStr(input) ==
    IF Len(input) = 45 /\ SubSeq(input, 1, 9) = UrnPrefix
    THEN UuidParseFrom(SubSeq(input, 10, 45), 1, 0, 0, <<>>)
    ELSE IF Len(input) \in {36, 32}
    THEN UuidParseFrom(input, 1, 0, 0, <<>>)
    ELSE ParseErr

\* FileDescriptor::to_string: the lowercase hyphenated form (8-4-4-4-12).
ToHyphenated(uuid) ==
    LET h(a, b) == [i \in 1..(b - a + 1) |-> HexLower[uuid[a + i - 1] + 1]]
    IN h(1, 8) \o <<"-">> \o h(9, 12) \o <<"-">> \o h(13, 16) \o <<"-">>
       \o h(17, 20) \o <<"-">> \o h(21, 32)

\* from_param, mutated: the character pre-filter is dropped.
FromParam_NoFilter(param) ==
    LET r == UuidParseStr(param)
    IN IF r.ok THEN [ok |-> TRUE, fd |-> r.uuid, err |-> "none"]
       ELSE [ok |-> FALSE, fd |-> <<>>, err |-> "Uuid"]

\* FileDescriptor::from_param: only ASCII alphanumerics and hyphens reach
\* Uuid::parse_str; anything else is InvalidChars.
FromParam(param) ==
    IF \A i \in DOMAIN param : IsAsciiAlphanumeric(param[i]) \/ param[i] = "-"
    THEN LET r == UuidParseStr(param)
         IN IF r.ok THEN [ok |-> TRUE, fd |-> r.uuid, err |-> "none"]
            ELSE [ok |-> FALSE, fd |-> <<>>, err |-> "Uuid"]
    ELSE [ok |-> FALSE, fd |-> <<>>, err |-> "InvalidChars"]

\* --------------------------------------------------------- address codec

\* IpAddr: the family and the octets in network order.
IpV4(octets) == [v |-> 4, octets |-> octets]
IpV6(octets) == [v |-> 6, octets |-> octets]

\* The encoding in add_file, mutated: an IPv4 address is stored as its
\* IPv4-mapped IPv6 form.
IpToBytes_V4Mapped(addr) ==
    IF addr.v = 4
    THEN <<0, 0, 0, 0, 0, 0, 0, 0, 0, 0, 255, 255>> \o addr.octets
    ELSE addr.octets

\* The encoding in add_file: the octets of either family.
IpToBytes(addr) == addr.octets

\* bytes_to_ip: 16 bytes are an IPv6 address, 4 an IPv4 address, any other
\* length is None.
BytesToIp(bytes) ==
    IF Len(bytes) = 16 THEN <<IpV6(bytes)>>
    ELSE IF Len(bytes) = 4 THEN <<IpV4(bytes)>>
    ELSE <<>>

\* ------------------------------------------------------------ input sets

\* The longest upload_ip value tried.
MaxBufLen == 17

\* Sample octets.
ProbeOctets == {0, 1, 255}

\* n octets, all y but the k-th, which is x.
Octets(n, k, x, y) == [i \in 1..n |-> IF i = k THEN x ELSE y]

\* The values an upload_ip column of up to MaxBufLen bytes is tried with.
ProbeBuffers ==
    { Octets(n, k, x, y) : n \in 0..MaxBufLen, k \in {1, 4}, x \in ProbeOctets, y \in {0, 255} }

\* Sample identifiers.  Nibble 13 is the version (4) and nibble 17 the variant
\* (8..b), as Uuid::new_v4 sets them.
UuidOf(k) ==
    [i \in 1..32 |-> IF i = 13 THEN 4
                     ELSE IF i = 17 THEN 8 + (k % 4)
                     ELSE (7 * k + 5 * i) % 16]

\* Uuid::new_v4 draws from this pool, never the same value twice.
MintPool == {UuidOf(k) : k \in 1..MaxUploads}

\* A well-formed identifier that new_v4 never returns here.
Unminted == UuidOf(0)

NameA == <<"a", ".", "t", "x", "t">>
NameB == <<"b", ".", "t", "x", "t">>
Names == {NameA, NameB}
\* The display name a path may carry, and the one an upload form may carry.
NameOpts == {<<>>} \cup {<<n>> : n \in Names}
FormNames == {<<>>, <<NameA>>}

\* File contents are byte sequences.
Contents == {<<1, 2>>, <<3>>}

\* What an interrupted copy leaves behind: a proper prefix of the content.
ProperPrefixes(c) == {SubSeq(c, 1, n) : n \in 0..(Len(c) - 1)}

Addrs == {IpV4(<<203, 0, 113, 5>>),
          IpV6(<<32, 1, 13, 184, 0, 0, 0, 0, 0, 0, 0, 0, 0, 0, 0, 1>>)}

\* Other textual forms of an identifier.
SimpleForm(uuid) == [i \in 1..32 |-> HexLower[uuid[i] + 1]]
UpperForm(uuid) ==
    LET t == ToHyphenated(uuid)
    IN [i \in 1..36 |-> IF t[i] = "-" THEN "-" ELSE HexUpper[HexVal(t[i]) + 1]]
UrnForm(uuid) == UrnPrefix \o ToHyphenated(uuid)
\* The hyphens moved: groups of 4-8-4-4-12.
Regrouped(uuid) ==
    LET s == SimpleForm(uuid)
    IN SubSeq(s, 1, 4) \o <<"-">> \o SubSeq(s, 5, 12) \o <<"-">> \o SubSeq(s, 13, 16)
       \o <<"-">> \o SubSeq(s, 17, 20) \o <<"-">> \o SubSeq(s, 21, 32)
WithCharAt(t, i, c) == [t EXCEPT ![i] = c]

NotAUuid == <<"n","o","t","-","a","-","u","u","i","d">>

\* The identifier segments a download request may carry (percent-decoded, as
\* the route binding hands them to from_param).
ValidTexts ==
    {ToHyphenated(id) : id \in MintPool \cup {Unminted}}
    \cup {SimpleForm(UuidOf(1)), UpperForm(UuidOf(1))}
MalformedTexts ==
    { NotAUuid,
      WithCharAt(ToHyphenated(UuidOf(1)), 3, "%"),
      WithCharAt(ToHyphenated(UuidOf(1)), 5, "/"),
      WithCharAt(SimpleForm(UuidOf(1)), 7, "g"),
      Regrouped(UuidOf(1)),
      SubSeq(ToHyphenated(UuidOf(1)), 1, 35),
      UrnForm(UuidOf(1)) }
Texts == ValidTexts \cup MalformedTexts

\* from_param on each of them.
Parsed == [t \in Texts |-> FromParam(t)]

\* ----------------------------------------------------------------- state

VARIABLES
    index,    \* file_index: fd -> [name, upload_ip]
    blobs,    \* the content root: file name -> bytes
    minted,   \* the identifiers Uuid::new_v4 has returned
    up,       \* the upload requests
    dl,       \* the download requests
    probe     \* one address taken through the codec of upload_ip

vars == <<index, blobs, minted, up, dl, probe>>

\* FileInfo::new
FileInfo(fd, name, upload_ip) == [fd |-> fd, name |-> name, upload_ip |-> upload_ip]

\* The status a handler's result is answered with: the FileError variants, the
\* Option responder (None is 404) and a successful body.
StatusOf(outcome) ==
    CASE outcome = "Ok" -> 200
      [] outcome = "Uuid" -> 400
      [] outcome = "NotFound" -> 404
      [] outcome = "InvalidForm" -> 422
      [] outcome = "SqlError" -> 500
      [] outcome = "IoError" -> 500
      [] OTHER -> 0

IdleUpload ==
    [pc |-> "idle", fd |-> <<>>, name |-> <<>>, content |-> <<>>, addr |-> <<>>,
     outcome |-> "pending", url |-> <<>>, wrote |-> "no", inserted |-> "no",
     nWrite |-> 0, nInsert |-> 0]

IdleDownload ==
    [pc |-> "idle", route |-> "none", text |-> <<>>, name |-> <<>>,
     parsed |-> "none", fd |-> <<>>, info |-> <<>>, lookup |-> "none",
     opened |-> "none", nLookup |-> 0, nOpen |-> 0, outcome |-> "pending",
     body |-> <<>>,
     filename |-> <<>>, later |-> FALSE]

\* No address is in the codec.
IdleProbe == [pc |-> "idle", addr |-> <<>>, bytes |-> <<>>, decoded |-> <<>>]

Init ==
    /\ index = <<>>
    /\ blobs = <<>>
    /\ minted = {}
    /\ up = [u \in Uploads |-> IdleUpload]
    /\ dl = [d \in Downloads |-> IdleDownload]
    /\ probe = IdleProbe

\* f with key k set to v (k may be new).
Put(f, k, v) == [x \in DOMAIN f \cup {k} |-> IF x = k THEN v ELSE f[x]]

\* Stores the service may be started on, left by earlier runs and by whatever
\* else touched the database and the content root: a row whose file is gone,
\* and a row whose upload_ip has 5 or 17 bytes beside its file.
LegacyStores ==
    { [index |-> Put(<<>>, Unminted, [name |-> <<NameA>>,
                                      upload_ip |-> <<203, 0, 113, 5>>]),
       blobs |-> <<>>] }
    \cup
    { [index |-> Put(<<>>, Unminted, [name |-> <<NameA>>, upload_ip |-> bytes]),
       blobs |-> Put(<<>>, ToHyphenated(Unminted), <<3>>)] :
         bytes \in {<<203, 0, 113, 5, 7>>,
                    <<32, 1, 13, 184, 0, 0, 0, 0, 0, 0, 0, 0, 0, 0, 0, 1, 7>>} }

InitLegacy ==
    /\ \E store \in LegacyStores : index = store.index /\ blobs = store.blobs
    /\ minted = {}
    /\ up = [u \in Uploads |-> IdleUpload]
    /\ dl = [d \in Downloads |-> IdleDownload]
    /\ probe = IdleProbe

\* ---------------------------------------------------------------- upload

\* The file a blob is stored in, mutated: one file for every upload.
BlobPath_Shared(fd) == ToHyphenated(Unminted)

\* The file a blob is stored in: file_path.join(fd.to_string()).
BlobPath(fd) == ToHyphenated(fd)

\* add_file's row, mutated: the name is not bound to the statement.
Row_NoName(info) == [name |-> <<>>, upload_ip |-> IpToBytes(info.upload_ip)]

\* add_file's row: the name and the encoded address.
Row(info) == [name |-> info.name, upload_ip |-> IpToBytes(info.upload_ip)]

\* upload_file after a failed move_copy_to, mutated: the error is ignored and
\* the handler goes on to the insert.
WriteFailed_Ignored(r) ==
    [r EXCEPT !.pc = "written", !.wrote = "fail", !.nWrite = @ + 1]

\* A handler that has ended without a URL keeps only its identifier and how it
\* ended.
Ended(r, pc, outcome) ==
    [IdleUpload EXCEPT !.pc = pc, !.fd = r.fd, !.outcome = outcome,
                       !.wrote = r.wrote, !.inserted = r.inserted,
                       !.nWrite = r.nWrite, !.nInsert = r.nInsert]

\* upload_file after a failed move_copy_to: `?` returns the IoError.
WriteFailed(r) ==
    [Ended(r, "done", "IoError") EXCEPT !.wrote = "fail", !.nWrite = @ + 1]

\* upload_file after a failed add_file, mutated: the error is dropped and the
\* URL returned all the same.
InsertFailed_UrlReturned(r) ==
    [r EXCEPT !.pc = "done", !.outcome = "Ok", !.url = ToHyphenated(r.fd),
              !.inserted = "fail", !.nInsert = @ + 1]

\* upload_file after a failed add_file: `?` returns the SqlError; the blob
\* stays where move_copy_to put it.
InsertFailed(r) ==
    [Ended(r, "done", "SqlError") EXCEPT !.inserted = "fail", !.nInsert = @ + 1]

\* upload_file, mutated: the record is inserted before the blob is written.
CanInsert_BeforeWrite(r) == r.pc \in {"minted", "written"}

\* upload_file reaches add_file only after move_copy_to has returned Ok.
CanInsert(r) == r.pc = "written"

\* Uuid::new_v4, mutated: a value returned before may be returned again.
FreshIds_Reused(m) == MintPool

\* Uuid::new_v4: a value it has not returned before.
FreshIds(m) == MintPool \ m

\* A request arrives on POST /raw (no name) or POST / (the form's name) and
\* upload_file mints its identifier.
UpStart(u) ==
    /\ up[u].pc = "idle"
    /\ \E route \in {"raw", "form"}, name \in FormNames, content \in Contents,
          addr \in Addrs, fd \in FreshIds(minted) :
          /\ route = "raw" => name = <<>>
          /\ up' = [up EXCEPT ![u] = [@ EXCEPT !.pc = "minted", !.fd = fd,
                                         !.name = name, !.content = content,
                                         !.addr = addr]]
          /\ minted' = minted \cup {fd}
    /\ UNCHANGED <<probe, index, blobs, dl>>

\* file.move_copy_to(path): the whole content is stored, or the write fails
\* and leaves nothing or a truncated file.
UpWrite(u) ==
    /\ up[u].pc = "minted"
    /\ \/ /\ blobs' = Put(blobs, BlobPath(up[u].fd), up[u].content)
          /\ up' = [up EXCEPT ![u] = [@ EXCEPT !.pc = "written", !.wrote = "ok",
                                         !.nWrite = @ + 1]]
       \/ /\ \/ blobs' = blobs
             \/ \E part \in ProperPrefixes(up[u].content) :
                   blobs' = Put(blobs, BlobPath(up[u].fd), part)
          /\ up' = [up EXCEPT ![u] = WriteFailed(@)]
    /\ UNCHANGED <<probe, index, minted, dl>>

\* add_file(db, FileInfo::new(fd, name, addr)): the row is inserted and the
\* URL of download_file(fd) returned, or the insert fails with a SqlError.
UpInsert(u) ==
    /\ CanInsert(up[u])
    /\ \/ /\ index' = Put(index, up[u].fd,
                          Row(FileInfo(up[u].fd, up[u].name, up[u].addr)))
          /\ up' = [up EXCEPT ![u] = [@ EXCEPT !.pc = "done", !.outcome = "Ok",
                                         !.url = ToHyphenated(up[u].fd),
                                         !.inserted = "ok",
                                         !.nInsert = @ + 1]]
       \/ /\ index' = index
          /\ up' = [up EXCEPT ![u] = InsertFailed(@)]
    /\ UNCHANGED <<probe, blobs, minted, dl>>

\* upload_file_raw_invalid: POST /raw with a multipart/form-data body is
\* answered FileError::invalid_form(); nothing is minted, written or inserted.
UpRawInvalid(u) ==
    /\ up[u].pc = "idle"
    /\ up' = [up EXCEPT ![u] = Ended(@, "done", "InvalidForm")]
    /\ UNCHANGED <<probe, index, blobs, minted, dl>>

\* The connection is dropped and the handler abandoned at an await: during
\* move_copy_to (nothing or a truncated file is left) or during add_file's
\* insert (the row is written or it is not).
UpAbandon(u) ==
    /\ \/ /\ up[u].pc = "minted"
          /\ \/ blobs' = blobs
             \/ \E part \in ProperPrefixes(up[u].content) :
                   blobs' = Put(blobs, BlobPath(up[u].fd), part)
          /\ index' = index
       \/ /\ up[u].pc = "written"
          /\ blobs' = blobs
          /\ \/ index' = index
             \/ index' = Put(index, up[u].fd,
                             Row(FileInfo(up[u].fd, up[u].name, up[u].addr)))
    /\ up' = [up EXCEPT ![u] = Ended(@, "abandoned", "pending")]
    /\ UNCHANGED <<probe, minted, dl>>

\* -------------------------------------------------------------- download

\* What the router answers when from_param fails and the route forwards:
\* GET /fd/<fd> forwards to download_file_invalid_fd (rank 2), which returns
\* FileError::uuid(); GET /fd/<fd>/<name> has no second route, so the request
\* ends at the 404 catcher.
ForwardedOutcome(route) == IF route = "plain" THEN "Uuid" ELSE "NotFound"

\* get_file, mutated: every query error is read as "no row".
GetFile_ErrAsNone(idx, fd, sqlFault) ==
    IF sqlFault \/ fd \notin DOMAIN idx
    THEN [tag |-> "None", info |-> <<>>, lookup |-> IF sqlFault THEN "fault" ELSE "norow"]
    ELSE LET addr == BytesToIp(idx[fd].upload_ip)
         IN IF addr = <<>>
            THEN [tag |-> "None", info |-> <<>>, lookup |-> "badaddr"]
            ELSE [tag |-> "Some", info |-> <<FileInfo(fd, idx[fd].name, addr[1])>>,
                  lookup |-> "row"]

\* get_file, mutated: a missing row is returned as an error.
GetFile_NoneAsErr(idx, fd, sqlFault) ==
    IF sqlFault \/ fd \notin DOMAIN idx
    THEN [tag |-> "Err", info |-> <<>>, lookup |-> IF sqlFault THEN "fault" ELSE "norow"]
    ELSE LET addr == BytesToIp(idx[fd].upload_ip)
         IN IF addr = <<>>
            THEN [tag |-> "None", info |-> <<>>, lookup |-> "badaddr"]
            ELSE [tag |-> "Some", info |-> <<FileInfo(fd, idx[fd].name, addr[1])>>,
                  lookup |-> "row"]

\* get_file, mutated: an identifier without a row is answered with an unnamed
\* record of the unspecified address.
GetFile_NoneAsDefault(idx, fd, sqlFault) ==
    IF sqlFault
    THEN [tag |-> "Err", info |-> <<>>, lookup |-> "fault"]
    ELSE IF fd \notin DOMAIN idx
    THEN [tag |-> "Some", info |-> <<FileInfo(fd, <<>>, IpV4(<<0, 0, 0, 0>>))>>,
          lookup |-> "norow"]
    ELSE LET addr == BytesToIp(idx[fd].upload_ip)
         IN IF addr = <<>>
            THEN [tag |-> "None", info |-> <<>>, lookup |-> "badaddr"]
            ELSE [tag |-> "Some", info |-> <<FileInfo(fd, idx[fd].name, addr[1])>>,
                  lookup |-> "row"]

\* get_file, mutated: an address that cannot be decoded is returned as an
\* error.
GetFile_BadAddrAsErr(idx, fd, sqlFault) ==
    IF sqlFault
    THEN [tag |-> "Err", info |-> <<>>, lookup |-> "fault"]
    ELSE IF fd \notin DOMAIN idx
    THEN [tag |-> "None", info |-> <<>>, lookup |-> "norow"]
    ELSE LET addr == BytesToIp(idx[fd].upload_ip)
         IN IF addr = <<>>
            THEN [tag |-> "Err", info |-> <<>>, lookup |-> "badaddr"]
            ELSE [tag |-> "Some", info |-> <<FileInfo(fd, idx[fd].name, addr[1])>>,
                  lookup |-> "row"]

\* get_file: Err(e) for a query error other than RowNotFound, Ok(None) for no
\* row or an address bytes_to_ip cannot decode, else Ok(Some(FileInfo)).
\* `lookup` records which of these happened.
GetFile(idx, fd, sqlFault) ==
    IF sqlFault
    THEN [tag |-> "Err", info |-> <<>>, lookup |-> "fault"]
    ELSE IF fd \notin DOMAIN idx
    THEN [tag |-> "None", info |-> <<>>, lookup |-> "norow"]
    ELSE LET addr == BytesToIp(idx[fd].upload_ip)
         IN IF addr = <<>>
            THEN [tag |-> "None", info |-> <<>>, lookup |-> "badaddr"]
            ELSE [tag |-> "Some", info |-> <<FileInfo(fd, idx[fd].name, addr[1])>>,
                  lookup |-> "row"]

\* start_file_download's override, mutated: the path's name only fills in a
\* record that has no name.
ApplyOverride_OnlyIfUnnamed(file, name) ==
    IF name # <<>> /\ file.name = <<>> THEN [file EXCEPT !.name = name] ELSE file

\* start_file_download: `if let Some(n) = name { file.name = Some(n) }`.
ApplyOverride(file, name) ==
    IF name # <<>> THEN [file EXCEPT !.name = name] ELSE file

\* FileDownload::respond_to's filename, mutated: an unnamed file gets an empty
\* filename.
Filename_NoFallback(file) ==
    IF file.name # <<>> THEN file.name[1] ELSE <<>>

\* FileDownload::respond_to's filename: the name, or the identifier's text.
Filename(file) ==
    IF file.name # <<>> THEN file.name[1] ELSE ToHyphenated(file.fd)

\* The index after a lookup, mutated: a row is deleted once it has been read.
IndexAfterLookup_Consume(idx, fd, name) == [x \in DOMAIN idx \ {fd} |-> idx[x]]

\* The index after a lookup, mutated: the override is written back.
IndexAfterLookup_WriteBack(idx, fd, name) ==
    IF fd \in DOMAIN idx /\ name # <<>>
    THEN [idx EXCEPT ![fd].name = name]
    ELSE idx

\* The index after a lookup: get_file only runs a SELECT.
IndexAfterLookup(idx, fd, name) == idx

\* A GET request arrives and the router binds it: from_param parses the
\* identifier segment; on failure the route forwards.
DlRoute(d) ==
    /\ dl[d].pc = "idle"
    /\ \E route \in {"plain", "named"}, text \in Texts, name \in NameOpts :
          /\ (route = "plain") <=> (name = <<>>)
          /\ LET p == Parsed[text]
                 base == [dl[d] EXCEPT !.route = route, !.text = text,
                             !.name = name,
                             !.parsed = IF p.ok THEN "ok" ELSE p.err,
                             !.later = \E u \in Uploads :
                                          /\ up[u].outcome = "Ok"
                                          /\ p.ok /\ up[u].fd = p.fd]
             IN dl' = [dl EXCEPT ![d] =
                    IF p.ok
                    THEN [base EXCEPT !.pc = "lookup", !.fd = p.fd]
                    ELSE [base EXCEPT !.pc = "done",
                                      !.outcome = ForwardedOutcome(route)]]
    /\ UNCHANGED <<probe, index, blobs, minted, up>>

\* start_file_download: get_file(db, fd).await?, then the override.
DlLookup(d) ==
    /\ dl[d].pc = "lookup"
    /\ \E sqlFault \in BOOLEAN :
          LET g == GetFile(index, dl[d].fd, sqlFault)
              base == [dl[d] EXCEPT !.lookup = g.lookup, !.nLookup = @ + 1]
          IN dl' = [dl EXCEPT ![d] =
                 CASE g.tag = "Err" ->
                        [base EXCEPT !.pc = "done", !.outcome = "SqlError"]
                   [] g.tag = "None" ->
                        [base EXCEPT !.pc = "done", !.outcome = "NotFound"]
                   [] g.tag = "Some" ->
                        [base EXCEPT !.pc = "open",
                            !.info = <<ApplyOverride(g.info[1], dl[d].name)>>]]
    /\ index' = IndexAfterLookup(index, dl[d].fd, dl[d].name)
    /\ UNCHANGED <<probe, blobs, minted, up>>

\* File::open(path): fails when the file is absent or on any other I/O
\* error, else gives the file's bytes.  `opened` records which happened.
FileOpen(bl, path, ioFault) ==
    IF path \notin DOMAIN bl
    THEN [ok |-> FALSE, body |-> <<>>, opened |-> "absent"]
    ELSE IF ioFault
    THEN [ok |-> FALSE, body |-> <<>>, opened |-> "fault"]
    ELSE [ok |-> TRUE, body |-> bl[path], opened |-> "ok"]

\* start_file_download after a failed open, mutated: a missing file is
\* answered like a missing record.
OpenFailedOutcome_AbsentIsNotFound(opened) ==
    IF opened = "absent" THEN "NotFound" ELSE "IoError"

\* start_file_download after a failed open: `?` with From<std::io::Error>
\* gives FileError::IoError, whatever the error.
OpenFailedOutcome(opened) == "IoError"

\* FileDownload::open(file, file_path).await?, then respond_to: the file's
\* bytes with the Content-Disposition filename.
DlOpen(d) ==
    /\ dl[d].pc = "open"
    /\ \E ioFault \in BOOLEAN :
          LET file == dl[d].info[1]
              f == FileOpen(blobs, BlobPath(file.fd), ioFault)
              base == [dl[d] EXCEPT !.pc = "done", !.opened = f.opened,
                                    !.nOpen = @ + 1]
          IN dl' = [dl EXCEPT ![d] =
                 IF f.ok
                 THEN [base EXCEPT !.outcome = "Ok", !.body = f.body,
                                   !.filename = Filename(file)]
                 ELSE [base EXCEPT !.outcome = OpenFailedOutcome(f.opened)]]
    /\ UNCHANGED <<probe, index, blobs, minted, up>>

\* The response has been sent; the connection takes its next request.
DlRetire(d) ==
    /\ dl[d].pc = "done"
    /\ dl' = [dl EXCEPT ![d] = IdleDownload]
    /\ UNCHANGED <<probe, index, blobs, minted, up>>

\* ------------------------------------------------------------------ spec

Next ==
    \/ \E u \in Uploads : UpStart(u)
    \/ \E u \in Uploads : UpWrite(u)
    \/ \E u \in Uploads : UpInsert(u)
    \/ \E u \in Uploads : UpAbandon(u)
    \/ \E u \in Uploads : UpRawInvalid(u)
    \/ \E d \in Downloads : DlRoute(d)
    \/ \E d \in Downloads : DlLookup(d)
    \/ \E d \in Downloads : DlOpen(d)
    \/ \E d \in Downloads : DlRetire(d)

Spec == Init /\ [][Next]_vars

\* The same service started on a store that earlier runs left behind.
SpecLegacy == InitLegacy /\ [][Next]_vars

\* ------------------------------------------------------ the address codec

\* The addresses the codec is tried with: the uploaders' and sample ones of
\* both families.
ProbeAddrs ==
    Addrs
    \cup { IpV4(o) : o \in [1..4 -> ProbeOctets] }
    \cup { IpV6(Octets(16, k, x, y)) : k \in 1..16, x \in ProbeOctets, y \in {0, 255} }

\* add_file encodes the address of a FileInfo for the upload_ip column.
ProbeEncode(a) ==
    /\ probe.pc = "idle"
    /\ probe' = [pc |-> "encoded", addr |-> <<a>>, bytes |-> IpToBytes(a), decoded |-> <<>>]
    /\ UNCHANGED <<index, blobs, minted, up, dl>>

\* get_file reads an upload_ip column that add_file need not have written.
ProbeRaw(bytes) ==
    /\ probe.pc = "idle"
    /\ probe' = [pc |-> "raw", addr |-> <<>>, bytes |-> bytes, decoded |-> <<>>]
    /\ UNCHANGED <<index, blobs, minted, up, dl>>

\* get_file decodes the column with bytes_to_ip.
ProbeDecode ==
    /\ probe.pc \in {"encoded", "raw"}
    /\ probe' = [probe EXCEPT !.pc = "decoded", !.decoded = BytesToIp(probe.bytes)]
    /\ UNCHANGED <<index, blobs, minted, up, dl>>

\* The next address.
ProbeReset ==
    /\ probe.pc = "decoded"
    /\ probe' = IdleProbe
    /\ UNCHANGED <<index, blobs, minted, up, dl>>

NextCodec ==
    \/ \E a \in ProbeAddrs : ProbeEncode(a)
    \/ \E bytes \in ProbeBuffers : ProbeRaw(bytes)
    \/ ProbeDecode
    \/ ProbeReset

SpecCodec == Init /\ [][NextCodec]_vars

\* ---------------------------------------------------------------- claims

Done(d) == dl[d].pc = "done"
Status(d) == StatusOf(dl[d].outcome)
\* The request's own index query or blob open failed.
Faulted(d) == dl[d].outcome \in {"SqlError", "IoError"}
\* from_param ran on the request's identifier segment and failed.
Malformed(d) == dl[d].parsed \in {"Uuid", "InvalidChars"}

\* C1: in every reachable state, whatever the interleaving of uploads and
\* downloads and wherever an upload failed or was abandoned, every identifier
\* with a row in the index has a file under the content root.
C1_RecordHasBlob ==
    \A fd \in DOMAIN index : BlobPath(fd) \in DOMAIN blobs

\* One upload has returned, another was abandoned after its write and left an
\* orphan blob, and a download is between its lookup and its open.
C1_Witness ==
    \E u1, u2 \in Uploads, d \in Downloads :
        /\ up[u1].outcome = "Ok"
        /\ up[u1].fd \in DOMAIN index
        /\ up[u2].pc = "abandoned"
        /\ BlobPath(up[u2].fd) \in DOMAIN blobs
        /\ up[u2].fd \notin DOMAIN index
        /\ dl[d].pc = "open"

\* C2: an upload whose blob write failed has ended with IoError (500), never
\* ran the insert, has no row in the index, and no lookup of its identifier
\* that the index answered has found a row.
C2_WriteFailureLeavesNoRecord ==
    \A u \in Uploads :
        up[u].wrote = "fail" =>
            /\ up[u].pc = "done"
            /\ up[u].outcome = "IoError"
            /\ StatusOf(up[u].outcome) = 500
            /\ up[u].nInsert = 0
            /\ up[u].url = <<>>
            /\ up[u].fd \notin DOMAIN index
            /\ \A d \in Downloads :
                  (dl[d].fd = up[u].fd /\ dl[d].lookup \notin {"none", "fault"}) =>
                      /\ dl[d].lookup = "norow"
                      /\ dl[d].outcome = "NotFound"

\* A write failed leaving a truncated file, and a download of that identifier
\* ended NotFound.
C2_Witness ==
    \E u \in Uploads, d \in Downloads :
        /\ up[u].wrote = "fail"
        /\ BlobPath(up[u].fd) \in DOMAIN blobs
        /\ dl[d].fd = up[u].fd
        /\ Done(d)
        /\ Status(d) = 404

\* C3: a download without override of an identifier whose upload (content C,
\* name N) had already returned its URL when the request arrived returns C
\* with filename N; it ends otherwise only when its own index query or blob
\* open fails (500).
C3_LaterDownloadReturnsUpload ==
    \A u \in Uploads, d \in Downloads :
        ( /\ up[u].outcome = "Ok"
          /\ up[u].name # <<>>
          /\ dl[d].later
          /\ dl[d].fd = up[u].fd
          /\ dl[d].route = "plain"
          /\ Done(d) ) =>
            /\ dl[d].outcome \in {"Ok", "SqlError", "IoError"}
            /\ ~Faulted(d) =>
                  /\ Status(d) = 200
                  /\ dl[d].body = up[u].content
                  /\ dl[d].filename = up[u].name[1]

\* Two uploads with different contents have returned, and a later download of
\* the named one has returned its content and name.
C3_Witness ==
    \E u1, u2 \in Uploads, d \in Downloads :
        /\ up[u1].outcome = "Ok" /\ up[u2].outcome = "Ok"
        /\ up[u1].name = <<NameA>> /\ up[u2].name = <<>>
        /\ up[u1].content # up[u2].content
        /\ dl[d].later /\ dl[d].fd = up[u1].fd /\ dl[d].route = "plain"
        /\ Done(d) /\ Status(d) = 200
        /\ dl[d].body = up[u1].content /\ dl[d].filename = NameA

\* C4: a download whose identifier text is malformed ends with status 400 and
\* performs no index lookup and no blob open.
C4_MalformedIs400 ==
    \A d \in Downloads :
        (Done(d) /\ Malformed(d)) =>
            /\ Status(d) = 400
            /\ dl[d].nLookup = 0
            /\ dl[d].nOpen = 0

\* C5: GET /fd/{identifier}/{displayName} with a malformed identifier is
\* answered 400, as GET /fd/{identifier} is.
C5_NamedMalformedIs400 ==
    \A d \in Downloads :
        (Done(d) /\ Malformed(d) /\ dl[d].route = "named") => Status(d) = 400

\* C6: a download of a well-formed identifier that has no row in the index (no
\* upload ever inserted one: rows are never removed) ends NotFound (404)
\* without opening a blob, unless the index query itself failed.
C6_UnknownIdIsNotFound ==
    \A d \in Downloads :
        ( /\ Done(d)
          /\ dl[d].parsed = "ok"
          /\ dl[d].fd \notin DOMAIN index
          /\ dl[d].lookup # "fault" ) =>
            /\ dl[d].outcome = "NotFound"
            /\ Status(d) = 404
            /\ dl[d].nOpen = 0

\* A download of the never-minted identifier ended 404 while the index holds
\* another upload's row.
C6_Witness ==
    \E d \in Downloads :
        /\ Done(d)
        /\ dl[d].fd = Unminted
        /\ Status(d) = 404
        /\ DOMAIN index # {}

\* C7: a lookup that finds no row ends the download NotFound (404); a lookup
\* that fails with another index error ends it with SqlError (500), never 404.
C7_NoRowVersusFault ==
    \A d \in Downloads :
        /\ dl[d].lookup = "norow" =>
              Done(d) /\ dl[d].outcome = "NotFound" /\ Status(d) = 404
        /\ dl[d].lookup = "fault" =>
              Done(d) /\ dl[d].outcome = "SqlError" /\ Status(d) = 500

\* The index query of a download failed although the identifier has a row.
C7_Witness ==
    \E d \in Downloads :
        /\ dl[d].lookup = "fault"
        /\ dl[d].fd \in DOMAIN index
        /\ Status(d) = 500

\* C8: a download with a path-supplied name D that finds its record answers
\* with filename D, whatever the stored name; it fails only on an I/O fault.
C8_OverrideWins ==
    \A d \in Downloads :
        (Done(d) /\ dl[d].route = "named" /\ dl[d].lookup = "row") =>
            /\ dl[d].outcome \in {"Ok", "IoError"}
            /\ dl[d].outcome = "Ok" => dl[d].filename = dl[d].name[1]

\* A download with override b.txt of a record stored as a.txt returned b.txt.
C8_Witness ==
    \E d \in Downloads :
        /\ Done(d) /\ dl[d].route = "named" /\ dl[d].outcome = "Ok"
        /\ dl[d].fd \in DOMAIN index
        /\ index[dl[d].fd].name = <<NameA>>
        /\ dl[d].name = <<NameB>>
        /\ dl[d].filename = NameB

\* The stored name of fd, or its text when the record has none.
StoredFilename(fd) ==
    IF index[fd].name # <<>> THEN index[fd].name[1] ELSE ToHyphenated(fd)

\* C9: no step of a download, with or without override, successful or not,
\* changes the index or the blob store; and a download without override
\* answers with the stored name.
C9_DownloadsChangeNothing ==
    /\ [][dl' # dl => (index' = index /\ blobs' = blobs)]_vars
    /\ [](\A d \in Downloads :
            (Done(d) /\ dl[d].route = "plain" /\ dl[d].outcome = "Ok") =>
                dl[d].filename = StoredFilename(dl[d].fd))

\* A download with an override has ended and the record still holds the other
\* name.
C9_Witness ==
    \E d \in Downloads :
        /\ Done(d) /\ dl[d].route = "named" /\ dl[d].outcome = "Ok"
        /\ dl[d].name # index[dl[d].fd].name
        /\ index[dl[d].fd].name # <<>>
        /\ BlobPath(dl[d].fd) \in DOMAIN blobs

\* The hyphenated 8-4-4-4-12 form, in either letter case.
IsGroupedHex(t) ==
    /\ Len(t) = 36
    /\ \A i \in 1..36 :
          IF i \in {9, 14, 19, 24} THEN t[i] = "-" ELSE IsHexDigit(t[i])

\* 32 hex digits and nothing else.
IsUngroupedHex(t) == Len(t) = 32 /\ \A i \in 1..32 : IsHexDigit(t[i])

\* The hex digits of a text, in order, as nibbles.
Nibbles(t) ==
    LET keep == SelectSeq(t, IsHexDigit)
    IN [i \in 1..Len(keep) |-> HexVal(keep[i])]

\* C10, as claimed: from_param succeeds only on the grouped 8-4-4-4-12 form.
C10_OnlyGroupedParses ==
    \A d \in Downloads : dl[d].parsed = "ok" => IsGroupedHex(dl[d].text)

\* C10, amended: from_param succeeds exactly on 32 hex digits of either letter
\* case, hyphenated 8-4-4-4-12 or with no hyphen at all, and returns the
\* identifier those digits spell; every other text fails.
C10_GroupedOrUngroupedParses ==
    \A d \in Downloads :
        dl[d].parsed # "none" =>
            /\ dl[d].parsed = "ok" <=>
                  (IsGroupedHex(dl[d].text) \/ IsUngroupedHex(dl[d].text))
            /\ dl[d].parsed = "ok" => dl[d].fd = Nibbles(dl[d].text)
            /\ Malformed(d) => dl[d].fd = <<>> /\ dl[d].nLookup = 0

\* A download by the ungrouped 32-digit text of an uploaded identifier has
\* returned the file.
C10_Witness ==
    \E d \in Downloads :
        /\ dl[d].text = SimpleForm(UuidOf(1))
        /\ dl[d].parsed = "ok"
        /\ Done(d) /\ Status(d) = 200

\* C11: an upload whose insert failed after its write succeeded has ended with
\* SqlError (500) and no URL, its identifier has no row, and the complete blob
\* is still under the content root.
C11_InsertFailureLeavesOrphan ==
    \A u \in Uploads :
        up[u].inserted = "fail" =>
            /\ up[u].pc = "done"
            /\ up[u].outcome = "SqlError"
            /\ StatusOf(up[u].outcome) = 500
            /\ up[u].url = <<>>
            /\ up[u].wrote = "ok"
            /\ up[u].fd \notin DOMAIN index
            /\ BlobPath(up[u].fd) \in DOMAIN blobs
            /\ blobs[BlobPath(up[u].fd)] \in Contents

\* An insert failed, the blob is in place, and a download of that identifier
\* has ended 404.
C11_Witness ==
    \E u \in Uploads, d \in Downloads :
        /\ up[u].inserted = "fail"
        /\ BlobPath(up[u].fd) \in DOMAIN blobs
        /\ dl[d].fd = up[u].fd
        /\ Done(d) /\ Status(d) = 404

\* C12: a download whose record exists but whose blob cannot be opened (the
\* file is absent, or File::open fails otherwise) ends with IoError (500),
\* never with NotFound (404).
C12_MissingBlobIsServerError ==
    \A d \in Downloads :
        dl[d].opened \in {"absent", "fault"} =>
            /\ Done(d)
            /\ dl[d].lookup = "row"
            /\ dl[d].outcome = "IoError"
            /\ Status(d) = 500

\* A download found its record, the file was not under the content root, and
\* it ended 500.
C12_Witness ==
    \E d \in Downloads :
        /\ dl[d].opened = "absent"
        /\ dl[d].fd \in DOMAIN index
        /\ BlobPath(dl[d].fd) \notin DOMAIN blobs
        /\ Done(d) /\ Status(d) = 500

\* The row of fd holds an address of a length bytes_to_ip does not decode.
BadAddress(fd) == fd \in DOMAIN index /\ Len(index[fd].upload_ip) \notin {4, 16}

\* C13: a download whose record exists with an uploader address of a length
\* other than 4 or 16 bytes ends NotFound (404), not with a server error, and
\* opens no blob (unless the index query itself failed).
C13_BadAddressIsNotFound ==
    \A d \in Downloads :
        (BadAddress(dl[d].fd) /\ dl[d].nLookup > 0 /\ dl[d].lookup # "fault") =>
            /\ dl[d].lookup = "badaddr"
            /\ Done(d)
            /\ dl[d].outcome = "NotFound"
            /\ Status(d) = 404
            /\ dl[d].nOpen = 0
            /\ dl[d].opened = "none"

\* A download of a record with a 5-byte address, whose file exists, has ended
\* 404.
C13_Witness ==
    \E d \in Downloads :
        /\ BadAddress(dl[d].fd)
        /\ Len(index[dl[d].fd].upload_ip) = 5
        /\ BlobPath(dl[d].fd) \in DOMAIN blobs
        /\ Done(d) /\ Status(d) = 404

\* C14: decoding the encoding of an address gives that address back, for an
\* IPv4 address (4 bytes) and for an IPv6 address (16 bytes); decoding a
\* value of any other length, 5 bytes for one, gives no address.
C14_AddressRoundTrip ==
    probe.pc = "decoded" =>
        /\ probe.addr # <<>> =>
              /\ probe.decoded = probe.addr
              /\ Len(probe.bytes) = (IF probe.addr[1].v = 4 THEN 4 ELSE 16)
        /\ Len(probe.bytes) \notin {4, 16} => probe.decoded = <<>>
        /\ Len(probe.bytes) \in {4, 16} => probe.decoded # <<>>

\* An IPv4 address has been encoded to 4 bytes and decoded to itself.
C14_Witness ==
    /\ probe.pc = "decoded"
    /\ probe.addr # <<>>
    /\ probe.addr[1].v = 4
    /\ Len(probe.bytes) = 4
    /\ probe.decoded = probe.addr

\* C15: two uploads in flight at once never contend: they hold different
\* identifiers and so different files and rows; from its write on, an
\* upload's file holds its own content whatever the other upload does, and
\* each upload that returned a URL has its own row with its own name and
\* address.
C15_ConcurrentUploadsAreIndependent ==
    /\ \A u, v \in Uploads :
          (u # v /\ up[u].fd # <<>> /\ up[v].fd # <<>>) =>
              /\ up[u].fd # up[v].fd
              /\ BlobPath(up[u].fd) # BlobPath(up[v].fd)
    /\ \A u \in Uploads :
          (up[u].wrote = "ok" /\ (up[u].pc = "written" \/ up[u].outcome = "Ok")) =>
              /\ BlobPath(up[u].fd) \in DOMAIN blobs
              /\ blobs[BlobPath(up[u].fd)] = up[u].content
    /\ \A u \in Uploads :
          up[u].outcome = "Ok" =>
              /\ up[u].wrote = "ok"
              /\ up[u].fd \in DOMAIN index
              /\ index[up[u].fd] = [name |-> up[u].name,
                                    upload_ip |-> up[u].addr.octets]
              /\ up[u].url = ToHyphenated(up[u].fd)

\* Two uploads with different content, names and addresses have both
\* returned a URL.
C15_Witness ==
    \E u, v \in Uploads :
        /\ up[u].outcome = "Ok" /\ up[v].outcome = "Ok"
        /\ up[u].content # up[v].content
        /\ up[u].name # up[v].name
        /\ up[u].addr # up[v].addr
        /\ blobs[BlobPath(up[u].fd)] # blobs[BlobPath(up[v].fd)]
        /\ index[up[u].fd] # index[up[v].fd]

\* C16: once the row of an identifier exists, no step of any upload or
\* download changes its name or its address or removes it.
C16_RecordsNeverChange ==
    [][\A fd \in DOMAIN index :
          /\ fd \in DOMAIN index'
          /\ index'[fd].name = index[fd].name
          /\ index'[fd].upload_ip = index[fd].upload_ip]_vars

\* An upload's row still holds its name and address after another upload has
\* added its own row and a download with an override has read the first.
C16_Witness ==
    \E u, v \in Uploads, d \in Downloads :
        /\ u # v
        /\ up[u].outcome = "Ok" /\ up[v].outcome = "Ok"
        /\ Done(d) /\ dl[d].outcome = "Ok"
        /\ dl[d].fd = up[u].fd
        /\ dl[d].name # <<>>
        /\ dl[d].name # up[u].name
        /\ index[up[u].fd] = Row(FileInfo(up[u].fd, up[u].name, up[u].addr))

\* C17: the file of an identifier is written by one write of its upload,
\* which has completed with the whole content before the identifier's row is
\* inserted; and once a file exists, no step of any upload or download
\* changes or removes it.
C17_BlobWrittenOnceBeforeInsert ==
    /\ [](\A u \in Uploads :
            /\ up[u].nWrite <= 1
            /\ (up[u].fd # <<>> /\ up[u].fd \in DOMAIN index) =>
                  /\ up[u].wrote = "ok"
                  /\ up[u].nWrite = 1
                  /\ BlobPath(up[u].fd) \in DOMAIN blobs
                  /\ blobs[BlobPath(up[u].fd)] \in Contents)
    /\ [][\A path \in DOMAIN blobs :
             path \in DOMAIN blobs' /\ blobs'[path] = blobs[path]]_vars

\* A file written by one upload is unchanged after the other upload has
\* written and recorded its own file and a download has returned the first.
C17_Witness ==
    \E u, v \in Uploads, d \in Downloads :
        /\ u # v
        /\ up[u].outcome = "Ok" /\ up[v].outcome = "Ok"
        /\ up[u].content # up[v].content
        /\ up[u].nWrite = 1 /\ up[v].nWrite = 1
        /\ Done(d) /\ dl[d].outcome = "Ok"
        /\ dl[d].fd = up[u].fd
        /\ dl[d].body = up[u].content
        /\ blobs[BlobPath(up[u].fd)] = up[u].content

\* C18: every fault of a request has the status of its kind: a malformed
\* identifier 400, no usable row 404, an invalid form 422, a failed index
\* statement 500, a failed write or open 500; and a request runs its write,
\* insert, lookup and open at most once each.
C18_FaultsMapOneToOne ==
    /\ \A d \in Downloads :
          /\ dl[d].nLookup <= 1
          /\ dl[d].nOpen <= 1
          /\ Done(d) =>
                /\ Malformed(d) => Status(d) = 400
                /\ dl[d].lookup \in {"norow", "badaddr"} => Status(d) = 404
                /\ dl[d].lookup = "fault" => Status(d) = 500
                /\ dl[d].opened \in {"absent", "fault"} => Status(d) = 500
                /\ Status(d) \in {200, 400, 404, 500}
    /\ \A u \in Uploads :
          /\ up[u].nWrite <= 1
          /\ up[u].nInsert <= 1
          /\ up[u].pc = "done" =>
                /\ up[u].outcome = "InvalidForm" =>
                      StatusOf(up[u].outcome) = 422 /\ up[u].nWrite = 0
                /\ up[u].wrote = "fail" =>
                      StatusOf(up[u].outcome) = 500 /\ up[u].nInsert = 0
                /\ up[u].inserted = "fail" => StatusOf(up[u].outcome) = 500
                /\ StatusOf(up[u].outcome) \in {200, 422, 500}

\* C19: the filename of a successful download is the name given in the path
\* when there is one, else the name stored in the row when it has one, else
\* the identifier's canonical text (grouped, lower case), however the request
\* spelled the identifier.
C19_FilenamePrecedence ==
    \A d \in Downloads :
        (Done(d) /\ dl[d].outcome = "Ok") =>
            /\ dl[d].fd \in DOMAIN index
            /\ dl[d].filename =
                  IF dl[d].name # <<>> THEN dl[d].name[1]
                  ELSE IF index[dl[d].fd].name # <<>> THEN index[dl[d].fd].name[1]
                  ELSE ToHyphenated(dl[d].fd)
            /\ (dl[d].name = <<>> /\ index[dl[d].fd].name = <<>>) =>
                  /\ IsGroupedHex(dl[d].filename)
                  /\ Range(dl[d].filename) \cap Range(HexUpper) \subseteq Range(HexLower)
                  /\ Parsed[dl[d].filename].ok
                  /\ Parsed[dl[d].filename].fd = dl[d].fd

\* A file uploaded without a name was downloaded without an override, the
\* request spelling the identifier otherwise than canonically, and the
\* filename is the canonical text.
C19_Witness ==
    \E u \in Uploads, d \in Downloads :
        /\ up[u].outcome = "Ok"
        /\ up[u].name = <<>>
        /\ Done(d) /\ dl[d].outcome = "Ok"
        /\ dl[d].route = "plain"
        /\ dl[d].fd = up[u].fd
        /\ dl[d].text # ToHyphenated(up[u].fd)
        /\ dl[d].filename = ToHyphenated(up[u].fd)

\* C20: a download of an identifier that has a file under the content root
\* but no row in the index (its upload failed or was abandoned between the
\* write and the insert, or has not inserted yet) never opens or returns the
\* file, and ends NotFound (404) unless the index query itself failed (500).
C20_OrphanBlobIsInvisible ==
    \A d \in Downloads :
        ( /\ Done(d)
          /\ dl[d].parsed = "ok"
          /\ dl[d].fd \notin DOMAIN index
          /\ BlobPath(dl[d].fd) \in DOMAIN blobs ) =>
            /\ dl[d].nOpen = 0
            /\ dl[d].opened = "none"
            /\ dl[d].body = <<>>
            /\ dl[d].outcome \in {"NotFound", "SqlError"}
            /\ dl[d].lookup # "fault" =>
                  dl[d].outcome = "NotFound" /\ Status(d) = 404

\* An upload was abandoned after it wrote its whole file, and a download of
\* its identifier has ended 404 without opening the file.
C20_Witness ==
    \E u \in Uploads, d \in Downloads :
        /\ up[u].pc = "abandoned"
        /\ up[u].wrote = "ok"
        /\ up[u].fd \notin DOMAIN index
        /\ BlobPath(up[u].fd) \in DOMAIN blobs
        /\ blobs[BlobPath(up[u].fd)] \in Contents
        /\ Done(d)
        /\ dl[d].fd = up[u].fd
        /\ dl[d].lookup = "norow"
        /\ dl[d].nOpen = 0
        /\ Status(d) = 404

====
